---- MODULE Spec2Model ----
(***************************************************************************)
(* OnnxifiOp (caffe2/operators/onnxifi_op.h): construction, the shared     *)
(* backend/graph cache it drives, destruction, and output shape hints.     *)
(*                                                                         *)
(* Each operator instance is constructed and destroyed by its own thread.  *)
(* OnnxBackendGraphMap (insert/remove) and BackendGraphInfo's teardown are *)
(* declared in caffe2/onnx/onnxifi_graph_info.h, which is not among the    *)
(* sources; they are modelled from the design document's contract of       *)
(* get_or_create/release (section 4.3).                                    *)
(* RunOnDevice is declared at line 101 and defined in onnxifi_op.cc, also  *)
(* not among the sources; its descriptor refresh and its choice of run     *)
(* entry point are modelled from sections 4.5 and 4.6.                     *)
(***************************************************************************)
EXTENDS Integers, Sequences, FiniteSets, TLC

\* ---------------------------------------------------------------- bounds
NumOps == 2
MaxBackends == 2
MaxShapeCalls == 2
MaxHintLen == 3
MaxRuns == 2

Ops == 1..NumOps

\* ------------------------------------------------------------- constants
ONNXIFI_DATATYPE_FLOAT32 == 1

SUCCESS == "ONNXIFI_STATUS_SUCCESS"
FALLBACK == "ONNXIFI_STATUS_FALLBACK"
INTERNAL_ERROR == "ONNXIFI_STATUS_INTERNAL_ERROR"
Statuses == {SUCCESS, FALLBACK, INTERNAL_ERROR}

\* ----------------------------------------------------------------- state
VARIABLES
  lib_,                       \* onnx::initOnnxifiLibrary() found the library
  library,                    \* what the loaded library offers
  pc,                         \* position of each operator's thread
  operator_def,               \* the OperatorDef each operator was given
  op_id_string_,
  backend_graph_shared_ptr_,
  backend_id_, backend_, graph_,
  onnxSetIOAndRunGraphPointer_,
  creator,                    \* locals of a running creator lambda
  err,                        \* message of the failed enforce
  backend_graph_map,          \* cache entries: key -> [info, refs]
  creating,                   \* keys whose creator is running
  native,                     \* every native handle: created?, release calls
  abi_calls,                  \* ABI calls made by each operator's thread
  teardown_calls,             \* release calls of a bundle's teardown, in order
  acquired,                   \* id of the bundle each operator obtained
  raced,                      \* obtained while a holder was mid-destructor
  output_shape_hint,          \* "output_shape_hint_<i>" arguments
  output_shape_hints_,        \* map output index -> TensorInfo
  dims, dims_before, shape_idx, shape_type, shape_calls,
  key_args,                   \* two (model_id, net_pos) argument pairs
  key_strings,                \* the op_id_string_ computed from each
  ext_build,                  \* compiled with ONNXIFI_ENABLE_EXT defined
  input_names_, output_names_,
  input_desc_, output_desc_,
  run_calls                   \* run entry points each operator invoked

opVars == <<lib_, library, pc, operator_def, op_id_string_,
            backend_graph_shared_ptr_,
            backend_id_, backend_, graph_, onnxSetIOAndRunGraphPointer_,
            creator, err, backend_graph_map, creating, native, abi_calls,
            teardown_calls, acquired, raced>>
shapeVars == <<output_shape_hint, output_shape_hints_, dims, dims_before,
               shape_idx, shape_type, shape_calls>>
keyVars == <<key_args, key_strings>>
descVars == <<input_names_, output_names_, input_desc_, output_desc_>>
runVars == <<ext_build, descVars, run_calls>>
vars == <<opVars, shapeVars, keyVars, runVars>>

\* --------------------------------------------------------------- handles
NullHandle == [kind |-> "null", run |-> 0, idx |-> 0]
BackendIDHandle(o, i) == [kind |-> "backend_id", run |-> o, idx |-> i]
BackendHandle(o) == [kind |-> "backend", run |-> o, idx |-> 0]
GraphHandle(o) == [kind |-> "graph", run |-> o, idx |-> 0]
Handles ==
  {BackendIDHandle(o, i) : o \in Ops, i \in 0..(MaxBackends - 1)}
    \cup {BackendHandle(o) : o \in Ops} \cup {GraphHandle(o) : o \in Ops}

NullInfo ==
  [id |-> 0, backend_id |-> NullHandle, backend |-> NullHandle,
   graph |-> NullHandle]

NoDef == [none |-> TRUE]
NoCreator == [num_backends |-> 0, backend_ids |-> <<>>, backend |-> NullHandle]

\* The native library of the process: how many backends it enumerates,
\* whether it exports the onnxSetIOAndRunGraphFunction extension, and the
\* status its onnxReleaseBackendID returns.  It enumerates no backend, one
\* or MaxBackends.  Two kinds are drawn: one that
\* exports the extension and releases cleanly, one without the extension
\* whose release reports an error.
Libraries ==
  {[num_backends |-> n, ext |-> e,
    release_status |-> IF e THEN SUCCESS ELSE INTERNAL_ERROR] :
     n \in {0, 1, MaxBackends}, e \in BOOLEAN}
OneBackendLibrary ==
  [num_backends |-> 1, ext |-> TRUE, release_status |-> SUCCESS]
NoLibrary == [num_backends |-> 0, ext |-> TRUE, release_status |-> SUCCESS]

\* ------------------------------------------------------- operator inputs
BaseDef ==
  [model_id |-> "m", net_pos |-> "0", backend_id |-> 0, onnx_model |-> "M",
   input_names |-> <<"x", "y">>, output_names |-> <<"z">>,
   input_size |-> 2, output_size |-> 1,
   initializers |-> <<"w", "w_mapped">>]
NetPositions == {"0", "1"}
BackendIndexes == {-1, 0, 1}
ValidDefs ==
  {[BaseDef EXCEPT !.backend_id = b] : b \in BackendIndexes}
    \cup {[BaseDef EXCEPT !.net_pos = p] : p \in NetPositions}
InvalidDefs ==
  {[BaseDef EXCEPT !.onnx_model = ""],
   [BaseDef EXCEPT !.initializers = <<"w">>],
   [BaseDef EXCEPT !.input_size = 1],
   [BaseDef EXCEPT !.output_names = <<"z", "t">>]}
Defs == ValidDefs \cup InvalidDefs

\* ------------------------------------------------------------- small maps
MapPut(m, k, v) == [x \in DOMAIN m \cup {k} |-> IF x = k THEN v ELSE m[x]]
MapDel(m, k) == [x \in DOMAIN m \ {k} |-> m[x]]

\* One ABI call as it appears in a thread's trace.
Call(fn, arg, status, out) ==
  [fn |-> fn, arg |-> arg, status |-> status, out |-> out]
Fns(calls) == {calls[i].fn : i \in 1..Len(calls)}

\* --------------------------------------------------- constructor, 28-94
\* CAFFE_ENFORCE(!onnx_model_str.empty(), ...)
ModelNonEmpty(d) == d.onnx_model # ""

\* CAFFE_ENFORCE_EQ(input_names_.size(), operator_def.input_size()) and outputs
AritiesMatch(d) ==
  /\ Len(d.input_names) = d.input_size
  /\ Len(d.output_names) = d.output_size

InitializersInPairsAlways(d) == TRUE
\* CAFFE_ENFORCE_EQ(initializers.size() % 2, 0, ...)
InitializersInPairs(d) == Len(d.initializers) % 2 = 0

\* The first failing CAFFE_ENFORCE of the constructor, in program order;
\* "" when every check passes.
ConfigError(d) ==
  IF ~lib_ THEN "Cannot initialize ONNXIFI library"
  ELSE IF ~ModelNonEmpty(d) THEN "onnx_model cannot be empty"
  ELSE IF ~AritiesMatch(d) THEN "input/output names size mismatch"
  ELSE IF ~InitializersInPairs(d) THEN "initializers should come in pairs"
  ELSE ""

\* op_id_string_ = model_id + ":" + net_pos
OpIdString(d) == d.model_id \o ":" \o d.net_pos

\* A descriptor's name is the pointer names[i].c_str(): it reads whatever
\* string i of the name vector holds.
NullBuffer == [tensor |-> "none"]
BuildDescriptorsLastName(names) ==
  [i \in 1..Len(names) |->
     [name |-> Len(names), buffer |-> NullBuffer, dims |-> <<>>]]
\* Lines 44-52: one default descriptor per name, .name = name.c_str().
BuildDescriptors(names) ==
  [i \in 1..Len(names) |-> [name |-> i, buffer |-> NullBuffer, dims |-> <<>>]]
\* The string a descriptor's name pointer reads.
DescName(names, desc) == names[desc.name]

\* Values of the "model_id" and "net_pos" string arguments; "" is the
\* default of GetSingleArgument when the argument is absent.
ModelIds == {"", "m", "m:"}
NetPosStrings == {"", "0", ":0"}
KeyArgs == [model_id : ModelIds, net_pos : NetPosStrings]

\* Lines 129-131 in two constructions, each on its own arguments.
BuildOpIdStrings ==
  /\ key_strings = <<>>
  /\ key_strings' = [i \in {1, 2} |-> OpIdString(key_args[i])]
  /\ UNCHANGED <<opVars, shapeVars, key_args, runVars>>

\* Constructor up to the call of backend_graph_map_ptr_->insert.
OnnxifiOp(o) ==
  /\ pc[o] = "init"
  /\ \E d \in Defs :
       /\ operator_def' = [operator_def EXCEPT ![o] = d]
       /\ IF ConfigError(d) # ""
            THEN /\ pc' = [pc EXCEPT ![o] = "failed"]
                 /\ err' = [err EXCEPT ![o] = ConfigError(d)]
                 /\ UNCHANGED <<op_id_string_, descVars>>
            ELSE /\ pc' = [pc EXCEPT ![o] = "insert"]
                 /\ op_id_string_' = [op_id_string_ EXCEPT ![o] = OpIdString(d)]
                 /\ input_names_' = [input_names_ EXCEPT ![o] = d.input_names]
                 /\ output_names_' =
                      [output_names_ EXCEPT ![o] = d.output_names]
                 /\ input_desc_' = [input_desc_ EXCEPT ![o] =
                      BuildDescriptors(d.input_names)]
                 /\ output_desc_' = [output_desc_ EXCEPT ![o] =
                      BuildDescriptors(d.output_names)]
                 /\ UNCHANGED err
  /\ UNCHANGED <<lib_, library, backend_graph_shared_ptr_, backend_id_,
                 backend_,
                 graph_, onnxSetIOAndRunGraphPointer_, creator,
                 backend_graph_map, creating, native, abi_calls,
                 teardown_calls, acquired, raced>>
  /\ UNCHANGED <<shapeVars, keyVars, ext_build, run_calls>>

\* ------------------------------------------------- native backend library
\* The library hands out fresh handles and counts the release calls on each.
NativeCreate(nat, hs) ==
  [h \in Handles |-> IF h \in hs THEN [created |-> TRUE, releases |-> 0]
                     ELSE nat[h]]
NativeRelease(nat, hs) ==
  [h \in Handles |-> IF h \in hs
                       THEN [nat[h] EXCEPT !.releases = @ + 1]
                       ELSE nat[h]]
CallStatuses == {SUCCESS, INTERNAL_ERROR}

\* ------------------------------- OnnxBackendGraphMap (get_or_create/release)
CacheHas(k) == k \in DOMAIN backend_graph_map
CacheBusyNever(k) == FALSE
\* Some thread is running creator for the key (the per-key lock is taken).
CacheBusy(k) == k \in creating
CacheAcquire(k) == [backend_graph_map EXCEPT ![k].refs = @ + 1]
CacheInstall(k, info) ==
  MapPut(backend_graph_map, k, [info |-> info, refs |-> 1])
\* Lines 189-194: the operator stores the shared reference and copies the
\* three handles out of the bundle.
Obtain(o, info) ==
  /\ backend_graph_shared_ptr_' = [backend_graph_shared_ptr_ EXCEPT ![o] = info]
  /\ backend_id_' = [backend_id_ EXCEPT ![o] = info.backend_id]
  /\ backend_' = [backend_ EXCEPT ![o] = info.backend]
  /\ graph_' = [graph_ EXCEPT ![o] = info.graph]
  /\ acquired' = [acquired EXCEPT ![o] = info.id]
  /\ raced' = [raced EXCEPT ![o] =
       \E p \in Ops \ {o} : /\ pc[p] = "dtor_remove"
                            /\ op_id_string_[p] = op_id_string_[o]]
  /\ pc' = [pc EXCEPT ![o] = "probe"]

\* insert(key, creator) finds an entry: the reference count goes up and the
\* existing bundle is returned; creator is not run.
InsertHit(o) ==
  /\ pc[o] = "insert"
  /\ CacheHas(op_id_string_[o])
  /\ backend_graph_map' = CacheAcquire(op_id_string_[o])
  /\ Obtain(o, backend_graph_map[op_id_string_[o]].info)
  /\ UNCHANGED <<lib_, library, operator_def, op_id_string_,
                 onnxSetIOAndRunGraphPointer_,
                 creator, err, creating, native, abi_calls, teardown_calls>>
  /\ UNCHANGED <<shapeVars, keyVars, runVars>>

\* insert(key, creator) finds no entry and nobody creating one: this thread
\* takes the key and runs creator.  A thread that finds the key taken waits.
InsertMiss(o) ==
  /\ pc[o] = "insert"
  /\ ~CacheHas(op_id_string_[o])
  /\ ~CacheBusy(op_id_string_[o])
  /\ creating' = creating \cup {op_id_string_[o]}
  /\ pc' = [pc EXCEPT ![o] = "creator_count"]
  /\ UNCHANGED <<lib_, library, operator_def, op_id_string_,
                 backend_graph_shared_ptr_,
                 backend_id_, backend_, graph_, onnxSetIOAndRunGraphPointer_,
                 creator, err, backend_graph_map, native, abi_calls,
                 teardown_calls, acquired, raced>>
  /\ UNCHANGED <<shapeVars, keyVars, runVars>>

\* A CAFFE_ENFORCE of creator fails: the exception leaves insert and the
\* constructor; creator's locals are gone and no entry is installed.
Throw(o, msg) ==
  /\ pc' = [pc EXCEPT ![o] = "failed"]
  /\ err' = [err EXCEPT ![o] = msg]
  /\ creator' = [creator EXCEPT ![o] = NoCreator]
  /\ creating' = creating \ {op_id_string_[o]}

\* ------------------------------------------------ creator lambda, 136-188
\* CAFFE_ENFORCE_LT(backend_index, num_backends): int against size_t, so a
\* negative index converts to a huge unsigned value and is never less.
IntLtSizeT(i, n) == i >= 0 /\ i < n

CountQueryErrorAcceptsSuccess(st, n, idx) ==
  IF st \notin {FALLBACK, SUCCESS}
    THEN "onnxGetBackendIDs(nullptr) != FALLBACK"
  ELSE IF ~(n > 0) THEN "At least 1 onnxifi backend should be available"
  ELSE IF ~IntLtSizeT(idx, n) THEN "Backend idx out of bound"
  ELSE ""
CountQueryErrorNoRangeCheck(st, n, idx) ==
  IF st # FALLBACK THEN "onnxGetBackendIDs(nullptr) != FALLBACK"
  ELSE ""
\* Lines 143-154: the three enforces that follow the count query.
CountQueryError(st, n, idx) ==
  IF st # FALLBACK THEN "onnxGetBackendIDs(nullptr) != FALLBACK"
  ELSE IF ~(n > 0) THEN "At least 1 onnxifi backend should be available"
  ELSE IF ~IntLtSizeT(idx, n) THEN "Backend idx out of bound"
  ELSE ""

\* Lines 141-155: count query with a null buffer, size and index checks,
\* backend_ids.resize(num_backends).
CreatorGetBackendIDsCount(o) ==
  /\ pc[o] = "creator_count"
  /\ \E st \in Statuses, n \in {library.num_backends} :
       /\ abi_calls' = [abi_calls EXCEPT ![o] =
            Append(@, Call("onnxGetBackendIDs(nullptr)", NullHandle, st,
                           IF st = FALLBACK THEN n ELSE 0))]
       /\ IF CountQueryError(st, n, operator_def[o].backend_id) # ""
            THEN Throw(o, CountQueryError(st, n, operator_def[o].backend_id))
            ELSE /\ pc' = [pc EXCEPT ![o] = "creator_fill"]
                 /\ creator' = [creator EXCEPT ![o].num_backends = n]
                 /\ UNCHANGED <<err, creating>>
  /\ UNCHANGED <<lib_, library, operator_def, op_id_string_,
                 backend_graph_shared_ptr_,
                 backend_id_, backend_, graph_, onnxSetIOAndRunGraphPointer_,
                 backend_graph_map, native, teardown_calls, acquired, raced>>
  /\ UNCHANGED <<shapeVars, keyVars, runVars>>

\* Lines 156-158: fill query; on success the library has written one
\* identity per enumerated backend.
CreatorGetBackendIDsFill(o) ==
  /\ pc[o] = "creator_fill"
  /\ \E st \in CallStatuses :
       LET n == creator[o].num_backends
           ids == [i \in 1..n |-> BackendIDHandle(o, i - 1)]
       IN /\ abi_calls' = [abi_calls EXCEPT ![o] =
               Append(@, Call("onnxGetBackendIDs(data)", NullHandle, st, n))]
          /\ IF st # SUCCESS
               THEN /\ Throw(o, "onnxGetBackendIDs(data) != SUCCESS")
                    /\ UNCHANGED native
               ELSE /\ pc' = [pc EXCEPT ![o] = "creator_init_backend"]
                    /\ creator' = [creator EXCEPT ![o].backend_ids = ids]
                    /\ native' = NativeCreate(native, {ids[i] : i \in 1..n})
                    /\ UNCHANGED <<err, creating>>
  /\ UNCHANGED <<lib_, library, operator_def, op_id_string_,
                 backend_graph_shared_ptr_,
                 backend_id_, backend_, graph_, onnxSetIOAndRunGraphPointer_,
                 backend_graph_map, teardown_calls, acquired, raced>>
  /\ UNCHANGED <<shapeVars, keyVars, runVars>>

\* backend_ids[backend_index]
SelectedBackendID(o) == creator[o].backend_ids[operator_def[o].backend_id + 1]

UnusedIndexNoSkip(j, idx) == j - 1
\* The j-th index (from 1) that the release loop does not skip.
UnusedIndex(j, idx) == IF j - 1 < idx THEN j - 1 ELSE j

\* Lines 167-173: the identities the loop releases, in loop order.
UnusedBackendIDs(ids, idx) ==
  [j \in 1..(Len(ids) - 1) |-> ids[UnusedIndex(j, idx) + 1]]

\* Lines 160-173: onnxInitBackend on the selected identity, then release of
\* every identity but the selected one; the status each release returns is
\* dropped.
CreatorInitBackend(o) ==
  /\ pc[o] = "creator_init_backend"
  /\ \E st \in CallStatuses :
       LET unused == UnusedBackendIDs(creator[o].backend_ids,
                                      operator_def[o].backend_id)
           init == Call("onnxInitBackend", SelectedBackendID(o), st, 0)
           releases == [j \in 1..Len(unused) |->
                          Call("onnxReleaseBackendID", unused[j],
                               library.release_status, 0)]
       IN IF st # SUCCESS
            THEN /\ abi_calls' = [abi_calls EXCEPT ![o] = Append(@, init)]
                 /\ Throw(o, "onnxInitBackend != SUCCESS")
                 /\ UNCHANGED native
            ELSE /\ abi_calls' = [abi_calls EXCEPT ![o] =
                      Append(@, init) \o releases]
                 /\ pc' = [pc EXCEPT ![o] = "creator_init_graph"]
                 /\ creator' = [creator EXCEPT ![o].backend = BackendHandle(o)]
                 /\ native' = NativeRelease(
                      NativeCreate(native, {BackendHandle(o)}),
                      {unused[j] : j \in 1..Len(unused)})
                 /\ UNCHANGED <<err, creating>>
  /\ UNCHANGED <<lib_, library, operator_def, op_id_string_,
                 backend_graph_shared_ptr_,
                 backend_id_, backend_, graph_, onnxSetIOAndRunGraphPointer_,
                 backend_graph_map, teardown_calls, acquired, raced>>
  /\ UNCHANGED <<shapeVars, keyVars, runVars>>

MakeBackendGraphInfoSwapped(o, backend_id, backend, graph) ==
  [id |-> o, backend_id |-> backend_id, backend |-> graph, graph |-> backend]
\* std::make_shared<onnx::BackendGraphInfo>(backend_id, backend, graph, lib)
MakeBackendGraphInfo(o, backend_id, backend, graph) ==
  [id |-> o, backend_id |-> backend_id, backend |-> backend, graph |-> graph]

InitGraphOkAlways(st) == TRUE
\* CAFFE_ENFORCE_EQ(lib->onnxInitGraph(...), ONNXIFI_STATUS_SUCCESS)
InitGraphOk(st) == st = SUCCESS

\* Lines 174-194: onnxInitGraph, creator returns the new bundle, insert
\* installs it with one reference and hands it to the constructing operator.
CreatorInitGraph(o) ==
  /\ pc[o] = "creator_init_graph"
  /\ \E st \in CallStatuses :
       LET graph == IF st = SUCCESS THEN GraphHandle(o) ELSE NullHandle
           info == MakeBackendGraphInfo(o, SelectedBackendID(o),
                                        creator[o].backend, graph)
       IN /\ abi_calls' = [abi_calls EXCEPT ![o] =
               Append(@, Call("onnxInitGraph", creator[o].backend, st, 0))]
          /\ native' = IF st = SUCCESS
                         THEN NativeCreate(native, {GraphHandle(o)})
                         ELSE native
          /\ IF ~InitGraphOk(st)
               THEN /\ Throw(o, "onnxInitGraph != SUCCESS")
                    /\ UNCHANGED <<backend_graph_shared_ptr_, backend_id_,
                                   backend_, graph_, backend_graph_map,
                                   acquired, raced>>
               ELSE /\ backend_graph_map' = CacheInstall(op_id_string_[o], info)
                    /\ creating' = creating \ {op_id_string_[o]}
                    /\ creator' = [creator EXCEPT ![o] = NoCreator]
                    /\ Obtain(o, info)
                    /\ UNCHANGED err
  /\ UNCHANGED <<lib_, library, operator_def, op_id_string_,
                 onnxSetIOAndRunGraphPointer_,
                 teardown_calls>>
  /\ UNCHANGED <<shapeVars, keyVars, runVars>>

ProbeResultAlways(st) == TRUE
\* Lines 199-206: the pointer is null unless the probe returned SUCCESS.
ProbeResult(st) == st = SUCCESS

\* Lines 196-207: probe for the extension entry point; a failed probe
\* leaves the pointer null and construction still completes.  Without
\* ONNXIFI_ENABLE_EXT the block is compiled out: no probe, no pointer.
ProbeExtension(o) ==
  /\ pc[o] = "probe"
  /\ IF ext_build
       THEN \E st \in {IF library.ext THEN SUCCESS ELSE INTERNAL_ERROR} :
              /\ abi_calls' = [abi_calls EXCEPT ![o] =
                   Append(@, Call("onnxGetExtensionFunctionAddress",
                                  backend_id_[o], st, 0))]
              /\ onnxSetIOAndRunGraphPointer_' =
                   [onnxSetIOAndRunGraphPointer_ EXCEPT ![o] = ProbeResult(st)]
       ELSE UNCHANGED <<abi_calls, onnxSetIOAndRunGraphPointer_>>
  /\ pc' = [pc EXCEPT ![o] = "live"]
  /\ UNCHANGED <<lib_, library, operator_def, op_id_string_,
                 backend_graph_shared_ptr_,
                 backend_id_, backend_, graph_, creator, err,
                 backend_graph_map, creating, native, teardown_calls,
                 acquired, raced>>
  /\ UNCHANGED <<shapeVars, keyVars, runVars>>

\* ------------------------------------------------- RunOnDevice, line 101
\* What the executor's tensors look like at one invocation.
TensorStates == {"a", "b"}
TensorDims(t) == IF t = "a" THEN <<1>> ELSE <<2, 2>>
\* Per invocation each descriptor's buffer pointer and dims are refreshed
\* from the current tensors; the name is left as constructed.
RefreshDescriptors(descs, t) ==
  [i \in 1..Len(descs) |->
     [descs[i] EXCEPT !.buffer = [tensor |-> t], !.dims = TensorDims(t)]]
\* The extended fenced entry point if it was resolved at build time,
\* otherwise the plain blocking one.
RunEntryPoint(o) ==
  IF ext_build /\ onnxSetIOAndRunGraphPointer_[o]
    THEN "onnxSetIOAndRunGraph"
    ELSE "onnxRunGraph"

\* One invocation of a constructed operator.
RunOnDevice(o) ==
  /\ pc[o] = "live"
  /\ Len(run_calls[o]) < MaxRuns
  /\ \E t \in TensorStates :
       /\ input_desc_' = [input_desc_ EXCEPT ![o] = RefreshDescriptors(@, t)]
       /\ output_desc_' =
            [output_desc_ EXCEPT ![o] = RefreshDescriptors(@, t)]
  /\ run_calls' = [run_calls EXCEPT ![o] = Append(@, RunEntryPoint(o))]
  /\ UNCHANGED <<opVars, shapeVars, keyVars, ext_build, input_names_,
                 output_names_>>

\* ------------------------------------------------------ destructor, 96-99
\* backend_graph_shared_ptr_.reset()
DtorReset(o) ==
  /\ pc[o] = "live"
  /\ backend_graph_shared_ptr_' =
       [backend_graph_shared_ptr_ EXCEPT ![o] = NullInfo]
  /\ pc' = [pc EXCEPT ![o] = "dtor_remove"]
  /\ UNCHANGED <<lib_, library, operator_def, op_id_string_, backend_id_,
                 backend_, graph_,
                 onnxSetIOAndRunGraphPointer_, creator, err,
                 backend_graph_map, creating, native, abi_calls,
                 teardown_calls, acquired, raced>>
  /\ UNCHANGED <<shapeVars, keyVars, runVars>>

\* The cache and what its teardown touches, as one value.
CacheNow ==
  [map |-> backend_graph_map, native |-> native, teardown |-> teardown_calls,
   misuse |-> FALSE]

\* Native teardown of a bundle: graph, then backend instance, then identity.
TeardownOrder(info) == <<info.graph, info.backend, info.backend_id>>

\* release(key): one reference less; at zero the bundle's native resources
\* are released in teardown order and the entry is removed.  A key without
\* an entry is reported as an error.
CacheRelease(c, k) ==
  IF k \notin DOMAIN c.map THEN [c EXCEPT !.misuse = TRUE]
  ELSE IF c.map[k].refs > 1 THEN [c EXCEPT !.map[k].refs = @ - 1]
  ELSE LET info == c.map[k].info IN
       [c EXCEPT !.map = MapDel(c.map, k),
                 !.teardown[info.id] = @ \o TeardownOrder(info),
                 !.native = NativeRelease(c.native,
                              {info.graph, info.backend, info.backend_id})]

DestructorRemoveTwice(c, k) == CacheRelease(CacheRelease(c, k), k)
DestructorRemoveSkipped(c, k) == c
\* Line 98: backend_graph_map_ptr_->remove(op_id_string_), once.
DestructorRemove(c, k) == CacheRelease(c, k)

\* Second half of the destructor.
DtorRemove(o) ==
  /\ pc[o] = "dtor_remove"
  /\ LET c == DestructorRemove(CacheNow, op_id_string_[o]) IN
       /\ backend_graph_map' = c.map
       /\ native' = c.native
       /\ teardown_calls' = c.teardown
       /\ err' = IF c.misuse
                   THEN [err EXCEPT ![o] = "release of a key with no entry"]
                   ELSE err
  /\ pc' = [pc EXCEPT ![o] = "dead"]
  /\ UNCHANGED <<lib_, library, operator_def, op_id_string_,
                 backend_graph_shared_ptr_, backend_id_, backend_, graph_,
                 onnxSetIOAndRunGraphPointer_, creator, creating, abi_calls,
                 acquired, raced>>
  /\ UNCHANGED <<shapeVars, keyVars, runVars>>

\* -------------------------------------------------- output shape hints
\* int argument stored into a uint64_t: a negative value v becomes 2^64 + v,
\* written hi * 2^64 + lo.
ToUint64(v) == [hi |-> IF v < 0 THEN 1 ELSE 0, lo |-> v]

\* Output positions that may carry a hint, and the positions asked for
\* (the last one never has a hint).
HintedOutputs == {0, 1}
AskedOutputs == {0, 1, 2}
HintValues == {-1, 1, 10}
HintLists == UNION {[1..n -> HintValues] : n \in 0..MaxHintLen}
StaleDims == {<<>>, <<ToUint64(7)>>}

BuildOutputShapeHintsFromZero(args) ==
  [i \in {j \in DOMAIN args : args[j] # <<>>} |->
     [onnxifi_type |-> ToUint64(Head(args[i])),
      dims |-> [k \in 1..Len(args[i]) |-> ToUint64(args[i][k])]]]
\* Lines 53-63: a non-empty hint list registers a TensorInfo whose type is
\* the first element and whose dims are the remaining elements.
BuildOutputShapeHints(args) ==
  [i \in {j \in DOMAIN args : args[j] # <<>>} |->
     [onnxifi_type |-> ToUint64(Head(args[i])),
      dims |-> [k \in 1..(Len(args[i]) - 1) |-> ToUint64(args[i][k + 1])]]]

\* Lines 104-115: the hint's dims are appended to *dims and its type is
\* returned; without a hint *dims is untouched and FLOAT32 is returned.
SetOutputShapeAndTypeDims(hints, output_idx, dims_in) ==
  IF output_idx \in DOMAIN hints
    THEN dims_in \o hints[output_idx].dims
    ELSE dims_in
SetOutputShapeAndTypeRet(hints, output_idx) ==
  IF output_idx \in DOMAIN hints
    THEN hints[output_idx].onnxifi_type
    ELSE ToUint64(ONNXIFI_DATATYPE_FLOAT32)

\* One call of SetOutputShapeAndType(output_idx, &dims) on a vector that is
\* empty, holds stale entries, or is the vector of the previous call.
SetOutputShapeAndType ==
  /\ shape_calls < MaxShapeCalls
  /\ \E output_idx \in AskedOutputs, dims_in \in StaleDims \cup {dims} :
       /\ dims_before' = dims_in
       /\ shape_idx' = output_idx
       /\ dims' = SetOutputShapeAndTypeDims(output_shape_hints_, output_idx,
                                            dims_in)
       /\ shape_type' = SetOutputShapeAndTypeRet(output_shape_hints_,
                                                 output_idx)
  /\ shape_calls' = shape_calls + 1
  /\ UNCHANGED <<output_shape_hint, output_shape_hints_>>
  /\ UNCHANGED <<opVars, keyVars, runVars>>

\* --------------------------------------------------------- specifications
InitOps ==
  /\ lib_ \in BOOLEAN
  /\ library \in Libraries
  /\ ~lib_ => library = NoLibrary
  /\ pc = [o \in Ops |-> "init"]
  /\ operator_def = [o \in Ops |-> NoDef]
  /\ op_id_string_ = [o \in Ops |-> ""]
  /\ backend_graph_shared_ptr_ = [o \in Ops |-> NullInfo]
  /\ backend_id_ = [o \in Ops |-> NullHandle]
  /\ backend_ = [o \in Ops |-> NullHandle]
  /\ graph_ = [o \in Ops |-> NullHandle]
  /\ onnxSetIOAndRunGraphPointer_ = [o \in Ops |-> FALSE]
  /\ creator = [o \in Ops |-> NoCreator]
  /\ err = [o \in Ops |-> ""]
  /\ backend_graph_map = [k \in {} |-> NullInfo]
  /\ creating = {}
  /\ native = [h \in Handles |-> [created |-> FALSE, releases |-> 0]]
  /\ abi_calls = [o \in Ops |-> <<>>]
  /\ teardown_calls = [o \in Ops |-> <<>>]
  /\ acquired = [o \in Ops |-> 0]
  /\ raced = [o \in Ops |-> FALSE]
  /\ input_names_ = [o \in Ops |-> <<>>]
  /\ output_names_ = [o \in Ops |-> <<>>]
  /\ input_desc_ = [o \in Ops |-> <<>>]
  /\ output_desc_ = [o \in Ops |-> <<>>]
  /\ run_calls = [o \in Ops |-> <<>>]

InitNoShape ==
  /\ output_shape_hint = [i \in {} |-> <<>>]
  /\ output_shape_hints_ = BuildOutputShapeHints(output_shape_hint)
  /\ dims = <<>>
  /\ dims_before = <<>>
  /\ shape_idx = 0
  /\ shape_type = ToUint64(ONNXIFI_DATATYPE_FLOAT32)
  /\ shape_calls = 0

InitNoKey ==
  /\ key_args = <<>>
  /\ key_strings = <<>>

Init == InitOps /\ InitNoShape /\ InitNoKey /\ ext_build = TRUE

Next ==
  \E o \in Ops :
    \/ OnnxifiOp(o)
    \/ InsertHit(o)
    \/ InsertMiss(o)
    \/ CreatorGetBackendIDsCount(o)
    \/ CreatorGetBackendIDsFill(o)
    \/ CreatorInitBackend(o)
    \/ CreatorInitGraph(o)
    \/ ProbeExtension(o)
    \/ DtorReset(o)
    \/ DtorRemove(o)

Spec == Init /\ [][Next]_vars

\* An operator constructed with shape-hint arguments, then asked for its
\* output shapes.
InitShape ==
  /\ InitOps
  /\ lib_ /\ library = OneBackendLibrary
  /\ output_shape_hint \in [HintedOutputs -> HintLists]
  /\ output_shape_hints_ = BuildOutputShapeHints(output_shape_hint)
  /\ dims = <<>>
  /\ dims_before = <<>>
  /\ shape_idx = 0
  /\ shape_type = ToUint64(ONNXIFI_DATATYPE_FLOAT32)
  /\ shape_calls = 0
  /\ InitNoKey
  /\ ext_build = TRUE

NextShape == SetOutputShapeAndType

SpecShape == InitShape /\ [][NextShape]_vars

\* Two operators given arbitrary "model_id" and "net_pos" arguments, each
\* computing its op_id_string_.
InitKey ==
  /\ InitOps
  /\ lib_ /\ library = OneBackendLibrary
  /\ InitNoShape
  /\ key_args \in [{1, 2} -> KeyArgs]
  /\ key_strings = <<>>
  /\ ext_build = TRUE

NextKey == BuildOpIdStrings

SpecKey == InitKey /\ [][NextKey]_vars

\* Two operators built with or without ONNXIFI_ENABLE_EXT, constructed,
\* invoked any number of times and destroyed.
RunOps == {1, 2}

InitRun ==
  /\ InitOps
  /\ InitNoShape
  /\ InitNoKey
  /\ ext_build \in BOOLEAN

NextRun ==
  \E o \in RunOps :
    \/ OnnxifiOp(o)
    \/ InsertHit(o)
    \/ InsertMiss(o)
    \/ CreatorGetBackendIDsCount(o)
    \/ CreatorGetBackendIDsFill(o)
    \/ CreatorInitBackend(o)
    \/ CreatorInitGraph(o)
    \/ ProbeExtension(o)
    \/ RunOnDevice(o)
    \/ DtorReset(o)
    \/ DtorRemove(o)

SpecRun == InitRun /\ [][NextRun]_vars

\* ------------------------------------------------------------ vocabulary
InCreator(o) ==
  pc[o] \in {"creator_count", "creator_fill", "creator_init_backend",
             "creator_init_graph"}
\* The operator is constructed far enough to hold its shared reference.
Holding(o) == pc[o] \in {"probe", "live"}
SameKey(o1, o2) == o1 # o2 /\ op_id_string_[o1] = op_id_string_[o2]
\* The operators that obtained the bundle created by operator b's creator.
Acquirers(b) == {o \in Ops : acquired[o] = b}
Created(b) == acquired[b] = b
\* The three native handles of the bundle created by b, as b copied them.
HandlesOf(b) == {graph_[b], backend_[b], backend_id_[b]}
Unreleased(h) == native[h].created /\ native[h].releases = 0
TornDown(b) == teardown_calls[b] # <<>>
CallsOf(o, fn) ==
  SelectSeq(abi_calls[o], LAMBDA c : c.fn = fn)

C2_SharedBundleSurvives ==
  \A o1, o2 \in Ops :
    SameKey(o1, o2) =>
      /\ (Holding(o1) /\ Holding(o2)) =>
           /\ acquired[o1] = acquired[o2]
           /\ backend_id_[o1] = backend_id_[o2]
           /\ backend_[o1] = backend_[o2]
           /\ graph_[o1] = graph_[o2]
      /\ (pc[o1] = "dead" /\ Holding(o2) /\ acquired[o1] = acquired[o2]) =>
           /\ Unreleased(backend_id_[o2])
           /\ Unreleased(backend_[o2])
           /\ Unreleased(graph_[o2])

C2_Witness ==
  \E o1, o2 \in Ops :
    /\ SameKey(o1, o2)
    /\ pc[o1] = "dead" /\ pc[o2] = "live"
    /\ acquired[o1] = acquired[o2] /\ acquired[o2] # 0

\* ----------------------------------------------------------------- C3
\* C3: each native resource of a bundle is released at most once, not
\* before every operator that acquired the bundle is destroyed, and
\* exactly once when all of them are.
C3_ReleasedExactlyOnce ==
  \A b \in Ops :
    Created(b) =>
      \A h \in HandlesOf(b) :
        /\ native[h].releases <= 1
        /\ native[h].releases >= 1 => \A o \in Acquirers(b) : pc[o] = "dead"
        /\ (\A o \in Acquirers(b) : pc[o] = "dead") => native[h].releases = 1

C3_Witness ==
  \E b \in Ops :
    /\ Created(b)
    /\ Cardinality(Acquirers(b)) >= 2
    /\ \A o \in Acquirers(b) : pc[o] = "dead"
    /\ \A h \in HandlesOf(b) : native[h].releases = 1

\* ----------------------------------------------------------------- C4
\* C4: once the last operator referencing a key is destroyed, the bundle's
\* release calls were made in the order graph, backend instance, backend
\* identity (the handles that creator obtained as such), and the cache
\* holds no entry for that bundle; before that no release call of the
\* bundle was made.
C4_TeardownOrder ==
  \A b \in Ops :
    Created(b) =>
      IF \A o \in Acquirers(b) : pc[o] = "dead"
        THEN /\ teardown_calls[b] =
                  <<GraphHandle(b), BackendHandle(b),
                    BackendIDHandle(b, operator_def[b].backend_id)>>
             /\ \A k \in DOMAIN backend_graph_map :
                  backend_graph_map[k].info.id # b
        ELSE teardown_calls[b] = <<>>

C4_Witness ==
  \E b \in Ops :
    /\ Created(b)
    /\ Len(teardown_calls[b]) = 3
    /\ teardown_calls[b][1].kind = "graph"
    /\ teardown_calls[b][3].kind = "backend_id"
    /\ op_id_string_[b] \notin DOMAIN backend_graph_map

\* ----------------------------------------------------------------- C5
\* Every operator that ever obtained a bundle under this key is destroyed.
FormerHoldersAllDead(o) ==
  /\ \E p \in Ops \ {o} :
       op_id_string_[p] = op_id_string_[o] /\ acquired[p] # 0
  /\ \A p \in Ops \ {o} :
       (op_id_string_[p] = op_id_string_[o] /\ acquired[p] # 0)
         => pc[p] = "dead"

\* C5: when every operator that held the key is destroyed, the next insert
\* for the key runs creator, and the bundle that creator run returns is a
\* new one whose handles have never been released.
C5_FreshCreationAfterTeardown ==
  [][\A o \in Ops :
       /\ (pc[o] = "insert" /\ pc'[o] # "insert" /\ FormerHoldersAllDead(o))
            => pc'[o] = "creator_count"
       /\ (InCreator(o) /\ pc'[o] = "probe" /\ FormerHoldersAllDead(o))
            => /\ acquired'[o] = o
               /\ \A p \in Ops \ {o} :
                    backend_graph_shared_ptr_'[o].graph # graph_[p]
               /\ native'[graph_'[o]].releases = 0
               /\ native'[backend_'[o]].releases = 0
               /\ native'[backend_id_'[o]].releases = 0]_vars

C5_Witness ==
  \E o1, o2 \in Ops :
    /\ SameKey(o1, o2)
    /\ Created(o1) /\ TornDown(o1) /\ pc[o1] = "dead"
    /\ Created(o2) /\ pc[o2] = "live"

\* ----------------------------------------------------------------- C6
\* C6: whatever the interleaving of one operator's destructor (reset, then
\* remove) with another thread's insert for the same key, an operator that
\* holds a bundle holds one that is still in the cache under its key and
\* whose native resources have not been released.
C6_NeverHoldsTornDown ==
  \A o \in Ops :
    Holding(o) =>
      /\ op_id_string_[o] \in DOMAIN backend_graph_map
      /\ backend_graph_map[op_id_string_[o]].info = backend_graph_shared_ptr_[o]
      /\ ~TornDown(backend_graph_shared_ptr_[o].id)
      /\ Unreleased(backend_graph_shared_ptr_[o].graph)
      /\ Unreleased(backend_graph_shared_ptr_[o].backend)
      /\ Unreleased(backend_graph_shared_ptr_[o].backend_id)

\* An operator obtained the bundle between another holder's reset and
\* remove, and that other destructor has since finished.
C6_Witness ==
  \E o1, o2 \in Ops :
    /\ SameKey(o1, o2)
    /\ raced[o2] /\ pc[o2] = "live"
    /\ pc[o1] = "dead" /\ acquired[o1] = acquired[o2]

\* ----------------------------------------------------------------- C7
\* C7: an operator that was handed a bundle, by its own creator run or
\* from the cache, sees all three handles set, and they are the results
\* of the creator run of the bundle's creating operator, in which
\* onnxInitBackend and onnxInitGraph both returned success.
C7_NoPartialBundle ==
  \A o \in Ops :
    Holding(o) =>
      LET info == backend_graph_shared_ptr_[o]
          run == abi_calls[info.id]
          ib == SelectSeq(run, LAMBDA c : c.fn = "onnxInitBackend")
          ig == SelectSeq(run, LAMBDA c : c.fn = "onnxInitGraph")
      IN /\ info.id \in Ops
         /\ info.backend_id.kind = "backend_id"
         /\ info.backend.kind = "backend"
         /\ info.graph.kind = "graph"
         /\ backend_id_[o] = info.backend_id
         /\ backend_[o] = info.backend
         /\ graph_[o] = info.graph
         /\ \A h \in {info.backend_id, info.backend, info.graph} :
              native[h].created /\ h.run = info.id
         /\ Len(ib) = 1 /\ ib[1].status = SUCCESS
         /\ ib[1].arg = info.backend_id
         /\ Len(ig) = 1 /\ ig[1].status = SUCCESS
         /\ ig[1].arg = info.backend

\* An operator that did not run creator itself holds the bundle.
C7_Witness ==
  \E o \in Ops :
    /\ pc[o] = "live"
    /\ acquired[o] # 0 /\ acquired[o] # o
    /\ CallsOf(o, "onnxInitGraph") = <<>>

\* ----------------------------------------------------------------- C8
\* The count the enumeration reported to this construction, -1 if the
\* count query was not made or did not return FALLBACK.
EnumeratedCount(o) ==
  IF abi_calls[o] # <<>> /\ abi_calls[o][1].status = FALLBACK
    THEN abi_calls[o][1].out
    ELSE -1

InvalidConfiguration(d) ==
  \/ Len(d.initializers) % 2 = 1
  \/ d.onnx_model = ""
  \/ Len(d.input_names) # d.input_size
  \/ Len(d.output_names) # d.output_size

\* C9: a construction given an odd initializer list, empty model bytes or
\* a name count different from the arity has failed without any ABI call
\* and without a cache reference.
C9_ConfigErrorBeforeABI ==
  \A o \in Ops :
    (operator_def[o] # NoDef /\ InvalidConfiguration(operator_def[o])) =>
      /\ pc[o] = "failed"
      /\ abi_calls[o] = <<>>
      /\ acquired[o] = 0
      /\ backend_graph_shared_ptr_[o] = NullInfo
      /\ \A k \in DOMAIN backend_graph_map :
           backend_graph_map[k].refs =
             Cardinality({p \in Ops \ {o} :
                            op_id_string_[p] = k /\ acquired[p] # 0
                            /\ pc[p] # "dead"})

C9_Witness ==
  \E o \in Ops :
    /\ pc[o] = "failed"
    /\ Len(operator_def[o].initializers) % 2 = 1
    /\ err[o] = "initializers should come in pairs"
    /\ \E p \in Ops : pc[p] = "live"

\* ---------------------------------------------------------------- C10
\* What the hint arguments of output i register: type, then dims.
HintType(i) == ToUint64(output_shape_hint[i][1])
HintDims(i) ==
  [k \in 1..(Len(output_shape_hint[i]) - 1) |->
     ToUint64(output_shape_hint[i][k + 1])]
HintGiven(i) == i \in DOMAIN output_shape_hint /\ output_shape_hint[i] # <<>>

\* C10 as stated: after every call the result vector is exactly the hint's
\* dims (empty without a hint), whatever it held before.
C10_Original ==
  shape_calls > 0 =>
    IF HintGiven(shape_idx)
      THEN shape_type = HintType(shape_idx) /\ dims = HintDims(shape_idx)
      ELSE /\ shape_type = ToUint64(ONNXIFI_DATATYPE_FLOAT32)
           /\ dims = <<>>

\* C10 amended: the returned type is the hint's type (FLOAT32 without a
\* hint) and the hint's dims are appended to what the vector held before
\* (nothing is appended without a hint); a vector passed in empty
\* therefore comes back as exactly the hint's dims.
C10_HintAppended ==
  shape_calls > 0 =>
    IF HintGiven(shape_idx)
      THEN /\ shape_type = HintType(shape_idx)
           /\ dims = dims_before \o HintDims(shape_idx)
           /\ dims_before = <<>> => dims = HintDims(shape_idx)
      ELSE /\ shape_type = ToUint64(ONNXIFI_DATATYPE_FLOAT32)
           /\ dims = dims_before

\* A repeated call for an output with a hint of two dims.
C10_Witness ==
  /\ shape_calls >= 2
  /\ HintGiven(shape_idx)
  /\ Len(HintDims(shape_idx)) = 2
  /\ dims_before = <<>>
  /\ dims = HintDims(shape_idx)


\* ---------------------------------------------------------------- C11
\* The constructor has completed and the destructor has not started.
Constructed(o) == pc[o] = "live"
NamesOf(names, descs) == [i \in 1..Len(descs) |-> DescName(names, descs[i])]

\* C11: a constructed operator, however often invoked, has one input
\* descriptor per declared input and one output descriptor per declared
\* output, and the descriptor at each position carries the name given at
\* that position of input_names / output_names at construction.
C11_DescriptorNamesFixed ==
  \A o \in Ops :
    Constructed(o) =>
      /\ Len(input_desc_[o]) = operator_def[o].input_size
      /\ Len(output_desc_[o]) = operator_def[o].output_size
      /\ NamesOf(input_names_[o], input_desc_[o]) =
           operator_def[o].input_names
      /\ NamesOf(output_names_[o], output_desc_[o]) =
           operator_def[o].output_names

C11_Witness ==
  \E o \in Ops :
    /\ Constructed(o)
    /\ Len(run_calls[o]) = MaxRuns
    /\ Len(input_desc_[o]) = 2
    /\ input_desc_[o][1].buffer = [tensor |-> "b"]
    /\ input_desc_[o][2].dims = TensorDims("b")

\* ---------------------------------------------------------------- C12
\* The calls the creator lambda made, in order (the extension probe is made
\* by BuildBackendAndGraph after the creator has returned).
CreatorCalls(o) ==
  SelectSeq(abi_calls[o],
            LAMBDA c : c.fn # "onnxGetExtensionFunctionAddress")
IsCountQuery(c) == c.fn = "onnxGetBackendIDs(nullptr)"
\* A status the discipline treats as a failure of the call.
NonSuccess(c) ==
  c.status # SUCCESS /\ ~(IsCountQuery(c) /\ c.status = FALLBACK)

\* C12: every call of the creator that returns a status other than success
\* (other than FALLBACK on the count query) is the last call of its
\* construction, and that construction has failed: no such status is
\* ignored.
C12_NoStatusIgnored ==
  \A o \in Ops :
    \A i \in 1..Len(CreatorCalls(o)) :
      NonSuccess(CreatorCalls(o)[i]) =>
        /\ i = Len(CreatorCalls(o))
        /\ pc[o] = "failed"

\* ---------------------------------------------------------------- C13
LastCall(o) == CreatorCalls(o)[Len(CreatorCalls(o))]

\* C13 as stated: a construction never fails right after a call that
\* returned success; a count query answered with success proceeds.
C13_Original ==
  \A o \in Ops :
    (pc[o] = "failed" /\ CreatorCalls(o) # <<>>) =>
      LastCall(o).status # SUCCESS

\* C13, amended: a call other than the count query that returned success
\* never fails the construction; the count query has to return FALLBACK,
\* and a count query that returned success fails the construction before
\* any other call is made.
C13_SuccessProceedsExceptCountQuery ==
  \A o \in Ops :
    LET cs == CreatorCalls(o) IN
    cs # <<>> =>
      /\ (pc[o] = "failed" /\ cs[Len(cs)].status = SUCCESS) =>
           IsCountQuery(cs[Len(cs)])
      /\ cs[1].status = SUCCESS =>
           /\ pc[o] = "failed"
           /\ Len(cs) = 1
           /\ err[o] = "onnxGetBackendIDs(nullptr) != FALLBACK"

C13_Witness ==
  \E o1, o2 \in Ops :
    /\ pc[o1] = "failed"
    /\ Len(CreatorCalls(o1)) = 1
    /\ CreatorCalls(o1)[1].status = SUCCESS
    /\ pc[o2] = "live"
    /\ "onnxInitGraph" \in Fns(CreatorCalls(o2))

\* ---------------------------------------------------------------- C14
ProbeCalls(o) == CallsOf(o, "onnxGetExtensionFunctionAddress")
PastProbe(o) == pc[o] \in {"live", "dtor_remove", "dead"}
\* Every invocation so far used the one entry point given.
AllRunsUse(o, fn) ==
  \A i \in 1..Len(run_calls[o]) : run_calls[o][i] = fn

\* C14 as stated: every operator past its build step has probed exactly
\* once, and its invocations use the extended entry point exactly when
\* that probe succeeded.
C14_Original ==
  \A o \in Ops :
    PastProbe(o) =>
      /\ Len(ProbeCalls(o)) = 1
      /\ AllRunsUse(o, IF ProbeCalls(o)[1].status = SUCCESS
                          THEN "onnxSetIOAndRunGraph"
                          ELSE "onnxRunGraph")

\* C14, amended: when built with ONNXIFI_ENABLE_EXT an operator probes
\* exactly once, as its last call of construction and after it obtained the
\* bundle; a failed probe leaves the construction successful; every
\* invocation uses the extended entry point if that probe succeeded and the
\* plain one otherwise, and never probes again.  When built without
\* ONNXIFI_ENABLE_EXT no probe is ever made and every invocation uses the
\* plain entry point.
C14_ProbeOncePerExtBuild ==
  \A o \in Ops :
    /\ Len(ProbeCalls(o)) = IF ext_build /\ PastProbe(o) THEN 1 ELSE 0
    /\ ProbeCalls(o) # <<>> =>
         /\ abi_calls[o][Len(abi_calls[o])] = ProbeCalls(o)[1]
         /\ acquired[o] # 0
         /\ ProbeCalls(o)[1].arg = backend_id_[o]
    /\ run_calls[o] # <<>> => PastProbe(o)
    /\ AllRunsUse(o, IF ProbeCalls(o) # <<>>
                           /\ ProbeCalls(o)[1].status = SUCCESS
                        THEN "onnxSetIOAndRunGraph"
                        ELSE "onnxRunGraph")

C14_Witness ==
  \E o1, o2 \in Ops :
    /\ ext_build = TRUE
    /\ pc[o1] = "live" /\ pc[o2] = "live"
    /\ acquired[o2] = o1 /\ o1 # o2
    /\ Len(run_calls[o2]) = MaxRuns
    /\ ProbeCalls(o2)[1].status # SUCCESS
    /\ AllRunsUse(o2, "onnxRunGraph")

\* ---------------------------------------------------------------- C15
\* The calls of a complete creator run that enumerated n identities: count
\* query, fill query, onnxInitBackend, one onnxReleaseBackendID per
\* unselected identity, onnxInitGraph.
CreatorOrder(n) ==
  <<"onnxGetBackendIDs(nullptr)", "onnxGetBackendIDs(data)",
    "onnxInitBackend">>
    \o [j \in 1..(n - 1) |-> "onnxReleaseBackendID"]
    \o <<"onnxInitGraph">>
\* The calls one creator run has made so far are the first calls of that
\* order: none skipped, none out of place, none made twice.
CallsInOrder(o) ==
  LET cs == CreatorCalls(o)
      order == CreatorOrder(EnumeratedCount(o))
  IN /\ Len(cs) <= Len(order)
     /\ \A i \in 1..Len(cs) : cs[i].fn = order[i]
IndexRejected(o) == err[o] = "Backend idx out of bound"

\* C15 as stated: the creator's steps keep their order, and the backend
\* index is validated only after both enumeration queries were made.
C15_Original ==
  \A o \in Ops :
    /\ CallsInOrder(o)
    /\ IndexRejected(o) => "onnxGetBackendIDs(data)" \in Fns(CreatorCalls(o))

\* C15, amended: the creator's steps keep the order count query, index
\* validation, fill query, onnxInitBackend, releases, onnxInitGraph: the
\* index is validated between the two enumeration queries, so a rejected
\* index has seen the count query only and the fill query is made only for
\* an index in range.
C15_ValidationBetweenQueries ==
  \A o \in Ops :
    /\ CallsInOrder(o)
    /\ IndexRejected(o) =>
         Fns(CreatorCalls(o)) = {"onnxGetBackendIDs(nullptr)"}
    /\ "onnxGetBackendIDs(data)" \in Fns(CreatorCalls(o)) =>
         IntLtSizeT(operator_def[o].backend_id, EnumeratedCount(o))

C15_Witness ==
  \E o1, o2 \in Ops :
    /\ IndexRejected(o1)
    /\ Len(CreatorCalls(o1)) = 1
    /\ pc[o2] = "live"
    /\ Len(CallsOf(o2, "onnxReleaseBackendID")) = 1
    /\ "onnxInitGraph" \in Fns(CreatorCalls(o2))

\* ---------------------------------------------------------------- C16
ReleasesOf(h) == native[h].releases

\* C16: once the creator of operator b has returned a bundle for n
\* enumerated identities and selected index s, every identity at an index
\* other than s has been released exactly once, identity s is the bundle's
\* backend identity and is not released before the bundle is torn down.
C16_UnselectedReleasedOnce ==
  \A b \in Ops :
    Created(b) =>
      LET n == EnumeratedCount(b)
          s == operator_def[b].backend_id
      IN /\ IntLtSizeT(s, n)
         /\ \A i \in 0..(n - 1) :
              /\ native[BackendIDHandle(b, i)].created
              /\ i # s => ReleasesOf(BackendIDHandle(b, i)) = 1
         /\ backend_id_[b] = BackendIDHandle(b, s)
         /\ ReleasesOf(BackendIDHandle(b, s)) =
              IF TornDown(b) THEN 1 ELSE 0

C16_Witness ==
  \E b \in Ops :
    /\ Created(b)
    /\ EnumeratedCount(b) = 2
    /\ operator_def[b].backend_id = 1
    /\ pc[b] = "live"
    /\ ReleasesOf(BackendIDHandle(b, 0)) = 1
    /\ ReleasesOf(BackendIDHandle(b, 1)) = 0

\* ---------------------------------------------------------------- C17
\* C17: two (model_id, net_pos) pairs that differ in at least one component
\* give different cache keys.
C17_KeyInjective ==
  (key_strings # <<>> /\ key_args[1] # key_args[2]) =>
    key_strings[1] # key_strings[2]

\* ---------------------------------------------------------------- C18
\* What the graph of a bundle was compiled from is the configuration of the
\* operator whose creator made it.
CompiledFrom(o) == operator_def[acquired[o]]

\* C18: the graph handle an operator holds was compiled from model bytes,
\* initializers and backend index equal to the operator's own, also when
\* the bundle came out of the cache.
C18_GraphMatchesOwnConfig ==
  \A o \in Ops :
    (Holding(o) /\ acquired[o] # 0) =>
      /\ CompiledFrom(o).onnx_model = operator_def[o].onnx_model
      /\ CompiledFrom(o).initializers = operator_def[o].initializers
      /\ CompiledFrom(o).backend_id = operator_def[o].backend_id

\* ---------------------------------------------------------------- C19
\* The native handles the creator run of operator o can have been given.
RunHandles(o) ==
  {BackendIDHandle(o, i) : i \in 0..(MaxBackends - 1)}
    \cup {BackendHandle(o), GraphHandle(o)}
FillSucceeded(o) ==
  \E i \in 1..Len(abi_calls[o]) :
    /\ abi_calls[o][i].fn = "onnxGetBackendIDs(data)"
    /\ abi_calls[o][i].status = SUCCESS

\* C19: a construction that failed after its fill query succeeded has left
\* no native handle of its run unreleased and no entry of its own in the
\* cache.
C19_NoLeakOnAbort ==
  \A o \in Ops :
    (pc[o] = "failed" /\ FillSucceeded(o)) =>
      /\ \A h \in RunHandles(o) : ~Unreleased(h)
      /\ \A k \in DOMAIN backend_graph_map :
           backend_graph_map[k].info.id # o

\* ---------------------------------------------------------------- C20
\* Constructed and not yet through the remove call of its destructor.
HoldsReference(o) == pc[o] \in {"probe", "live", "dtor_remove"}
LiveWithKey(k) == {o \in Ops : HoldsReference(o) /\ op_id_string_[o] = k}

\* C20: the reference count of every cached key equals the number of
\* operators constructed with that key and not yet released; an operator
\* acquires once, on successful construction, and releases once, in its
\* destructor; a failed construction holds and releases nothing; release
\* is never called for a key without an entry.
C20_RefcountIsLiveInstances ==
  /\ \A k \in DOMAIN backend_graph_map :
       /\ backend_graph_map[k].refs = Cardinality(LiveWithKey(k))
       /\ backend_graph_map[k].refs >= 1
  /\ \A o \in Ops :
       /\ HoldsReference(o) => CacheHas(op_id_string_[o])
       /\ err[o] # "release of a key with no entry"
       /\ pc[o] = "failed" =>
            acquired[o] = 0 /\ backend_graph_shared_ptr_[o] = NullInfo
       /\ pc[o] \in {"probe", "live", "dtor_remove", "dead"} <=>
            acquired[o] # 0

C20_Witness ==
  \E o1, o2 \in Ops :
    /\ o1 # o2
    /\ pc[o1] = "dead"
    /\ pc[o2] = "live"
    /\ op_id_string_[o1] = op_id_string_[o2]
    /\ acquired[o1] = acquired[o2]
    /\ backend_graph_map[op_id_string_[o2]].refs = 1

====
